---- MODULE Spec2Model ----
(***************************************************************************)
(* The cash machine of fernandocamargo/cash-machine: the note decomposer   *)
(* (src/src/cash-machine/index.js), its error factory, and the HTTP        *)
(* handler (src/index.js).                                                 *)
(*                                                                         *)
(* JavaScript numbers are modelled by the integers (amounts and            *)
(* denominations with no fractional part, far below 2^53, where the        *)
(* floating-point operations of the source are exact) and NaN.  A          *)
(* JavaScript value is a record [type, n, s]: type is "null", "undefined", *)
(* "number", "nan" or "string"; n is the integer of a number; s is the     *)
(* character sequence of a string.  A note ("20.00") is a sequence of      *)
(* one-character strings.                                                  *)
(***************************************************************************)
EXTENDS Integers, Sequences, FiniteSets, TLC

(* ------------------------------ bounds -------------------------------- *)

\* Longest denomination list a caller supplies, the literal of src/index.js
\* and of the test suite apart (which FormatLists holds in every order).
MaxFormats == 3

\* Largest magnitude of a numeric amount a caller asks for.
MaxAmount == 150

\* Longest path segment of a request.
MaxParamLen == 3

\* Most requests a server has in flight at once.
MaxRequests == 2

\* The denominations a caller chooses from: the notes of the README.
Denoms == {100, 50, 20, 10}

\* The characters of a path segment: digits, a sign and a letter.
Chars == {"0", "1", "2", "3", "5", "8", "-", "a"}

(* --------------------------- JavaScript values ------------------------ *)

Null == [type |-> "null", n |-> 0, s |-> <<>>]

Undefined == [type |-> "undefined", n |-> 0, s |-> <<>>]

NaN == [type |-> "nan", n |-> 0, s |-> <<>>]

Num(k) == [type |-> "number", n |-> k, s |-> <<>>]

Str(cs) == [type |-> "string", n |-> 0, s |-> cs]

DigitChars == <<"0", "1", "2", "3", "4", "5", "6", "7", "8", "9">>

IsDigit(c) == \E d \in 1..10 : DigitChars[d] = c

DigitValue(c) == (CHOOSE d \in 1..10 : DigitChars[d] = c) - 1

RECURSIVE DigitsValue(_)
\* The integer a non-empty sequence of decimal digits denotes.
DigitsValue(cs) ==
  IF Len(cs) = 0 THEN 0
  ELSE 10 * DigitsValue(SubSeq(cs, 1, Len(cs) - 1)) + DigitValue(cs[Len(cs)])

AllDigits(cs) == Len(cs) > 0 /\ \A i \in 1..Len(cs) : IsDigit(cs[i])

\* Number(string): the empty string is 0, an optionally signed run of decimal
\* digits is its integer ("-0" is -0, which compares and subtracts as 0), and
\* every other string over Chars is NaN.
StringToNumber(cs) ==
  IF Len(cs) = 0 THEN Num(0)
  ELSE IF AllDigits(cs) THEN Num(DigitsValue(cs))
  ELSE IF cs[1] = "-" /\ AllDigits(Tail(cs)) THEN Num(0 - DigitsValue(Tail(cs)))
  ELSE NaN

\* Number(object), and the conversion every arithmetic operator applies.
ToNumber(v) ==
  CASE v.type = "null" -> Num(0)
    [] v.type = "undefined" -> NaN
    [] v.type = "string" -> StringToNumber(v.s)
    [] OTHER -> v

\* The truth value the conditional operator gives a value.
ToBoolean(v) ==
  CASE v.type = "number" -> v.n # 0
    [] v.type = "string" -> Len(v.s) > 0
    [] OTHER -> FALSE

isNaN(v) == ToNumber(v).type = "nan"

RECURSIVE IntDigits(_)
\* The decimal digits of a non-negative integer.
IntDigits(k) ==
  IF k < 10 THEN <<DigitChars[k + 1]>>
  ELSE Append(IntDigits(k \div 10), DigitChars[(k % 10) + 1])

\* format.toFixed(2) of an integer denomination: its digits and two decimals.
toFixed2(format) == IntDigits(format) \o <<".", "0", "0">>

(* ------------------------ src/cash-machine/index.js ------------------- *)

\* asNumber with its operands exchanged, the comparator of a descending sort.
asNumber_swapped(previous, next) == next - previous

\* The comparator handed to Array.prototype.sort.
asNumber(previous, next) == previous - next

RECURSIVE insert(_, _)
\* One step of the stable sort: x goes after every element that does not
\* compare greater than it.
insert(sorted, x) ==
  IF Len(sorted) = 0 THEN <<x>>
  ELSE IF asNumber(Head(sorted), x) > 0 THEN <<x>> \o sorted
  ELSE <<Head(sorted)>> \o insert(Tail(sorted), x)

RECURSIVE sort(_)
\* formats.sort(asNumber): the stable sort by the comparator.
sort(array) ==
  IF Len(array) = 0 THEN <<>>
  ELSE insert(sort(SubSeq(array, 1, Len(array) - 1)), array[Len(array)])

\* Array.prototype.reverse.
reverse(array) == [i \in 1..Len(array) |-> array[Len(array) + 1 - i]]

\* repeat making one copy too few.
repeat_oneShort(value, times) == [i \in 1..(times - 1) |-> value]

\* repeat making one copy too many.
repeat_oneMore(value, times) == [i \in 1..(times + 1) |-> value]

\* Array.apply(null, {length: times}).map(value.valueOf, value)
repeat(value, times) == [i \in 1..times |-> value]

\* extract putting the notes of a denomination before the notes already taken.
extract_prepends(acc, format) ==
  LET remaining == ToNumber(acc.remaining)
      amount == remaining.n \div format
  IN  IF remaining.type = "nan" THEN [remaining |-> NaN, output |-> acc.output]
      ELSE [remaining |-> Num(remaining.n - amount * format),
            output |-> repeat(toFixed2(format), amount) \o acc.output]

\* extract taking one note of a denomination at most.
extract_takesOne(acc, format) ==
  LET remaining == ToNumber(acc.remaining)
      amount == IF remaining.n >= format THEN 1 ELSE 0
  IN  IF remaining.type = "nan" THEN [remaining |-> NaN, output |-> acc.output]
      ELSE [remaining |-> Num(remaining.n - amount * format),
            output |-> acc.output \o repeat(toFixed2(format), amount)]

\* Math.floor(remaining / format) is the floor of the quotient, and NaN for a
\* NaN remaining: the subtraction is then NaN and repeat's length is 0.
extract(acc, format) ==
  LET remaining == ToNumber(acc.remaining)
      amount == remaining.n \div format
  IN  IF remaining.type = "nan" THEN [remaining |-> NaN, output |-> acc.output]
      ELSE [remaining |-> Num(remaining.n - amount * format),
            output |-> acc.output \o repeat(toFixed2(format), amount)]

initial(remaining) == [output |-> <<>>, remaining |-> remaining]

RECURSIVE reduce(_, _)
\* formats.reduce(extract, acc): the left fold over the denominations.
reduce(formats, acc) ==
  IF Len(formats) = 0 THEN acc
  ELSE reduce(Tail(formats), extract(acc, Head(formats)))

\* The Error object of src/error: its message is the type name.
error(type) == [message |-> type]

\* A call's outcome: it returns a value or it throws an error.
Return(value) == [kind |-> "return", value |-> value, message |-> ""]

debug(type) == [kind |-> "throw", value |-> <<>>, message |-> error(type).message]

\* withdraw returning what it took whatever remains.
withdraw_ignoresRemaining(formats, value) ==
  Return(reduce(formats, initial(value)).output)

withdraw(formats, value) ==
  LET acc == reduce(formats, initial(value))
  IN  IF ToBoolean(acc.remaining) THEN debug("NoteUnavailableException")
      ELSE Return(acc.output)

\* negative taking zero for negative.
negative_orZero(object) ==
  ToNumber(object).type = "number" /\ ToNumber(object).n <= 0

negative(object) == ToNumber(object).type = "number" /\ ToNumber(object).n < 0

\* validate calling the wrapped withdraw before it looks at the argument.
validate_callsFirst(formats, value) ==
  LET valid == ~isNaN(value) /\ ~negative(value)
      result == withdraw(formats, value)
  IN  IF result.kind = "throw" \/ valid THEN result
      ELSE debug("InvalidArgumentException")

\* validate(withdraw(formats)): the exported withdraw of a handle on formats.
validate(formats, value) ==
  LET valid == ~isNaN(value) /\ ~negative(value)
  IN  IF valid THEN withdraw(formats, value) ELSE debug("InvalidArgumentException")

\* The factory without its reverse: the denominations ascending.
machine_ascending(formats) == sort(formats)

\* module.exports: the array the handle's withdraw closes over, which is the
\* caller's array object itself, sorted and reversed in place.
machine(formats) == reverse(sort(formats))

(* ------------------------------- src/index.js ------------------------- *)

\* The array literal the handler (and the test suite) configures.
literal == <<100, 50, 20, 10>>

\* A response nothing was written to.
NoResponse == [sent |-> 0, status |-> 200, type |-> "none", json |-> <<>>, text |-> ""]

\* response.json(body): one response, the JSON array of the notes.
json(response, body) ==
  [response EXCEPT !.sent = @ + 1, !.type = "json", !.json = body]

\* response.status(code)
status(response, code) == [response EXCEPT !.status = code]

\* response.send(message): one response, the text of the message.
send(response, message) ==
  [response EXCEPT !.sent = @ + 1, !.type = "text", !.text = message]

\* value || null
OrNull(value) == IF ToBoolean(value) THEN value ELSE Null

\* The handler writing the JSON response outside the try as well.
app_respondsTwice(value, response) ==
  LET outcome == validate(machine(literal), OrNull(value))
  IN  IF outcome.kind = "return" THEN json(response, outcome.value)
      ELSE send(status(json(response, outcome.value), 500), outcome.message)

\* The handler answering an invalid argument with a client error's status.
app_clientError(value, response) ==
  LET outcome == validate(machine(literal), OrNull(value))
  IN  IF outcome.kind = "return" THEN json(response, outcome.value)
      ELSE IF outcome.message = "InvalidArgumentException"
      THEN send(status(response, 400), outcome.message)
      ELSE send(status(response, 500), outcome.message)

\* The handler: a handle on a fresh literal, the call, and the try/catch.
app(value, response) ==
  LET outcome == validate(machine(literal), OrNull(value))
  IN  IF outcome.kind = "return" THEN json(response, outcome.value)
      ELSE send(status(response, 500), outcome.message)

(* -------------------------------- the state --------------------------- *)

VARIABLES
  program,      \* which entry point runs: "library" (a caller of the module,
                \* as the test suite is) or "server" (src/index.js)
  given,        \* the denomination array as its owner wrote it
  formats,      \* that array object now; a handle's withdraw reads this object
  constructed,  \* whether a handle was made on the array
  call,         \* the withdraw call whose outcome the caller holds: its
                \* argument and its outcome
  kept,         \* an earlier call the caller kept to compare later ones with
  request,      \* the server's request: its state and its path segment
  response,     \* what the handler wrote to the request's response
  requests      \* the requests of a server with several in flight: for each
                \* its state, its path segment, its handler's array and
                \* what its handler wrote to its response

vars ==
  <<program, given, formats, constructed, call, kept, request, response, requests>>

\* The elements of a sequence.
Range(seq) == {seq[i] : i \in 1..Len(seq)}

\* The orders a caller may write the elements of a list of distinct elements in.
Orders(list) ==
  {p \in [1..Len(list) -> Range(list)] : Range(p) = Range(list)}

\* The denomination lists a caller supplies: every list of up to MaxFormats
\* denominations, and the literal's four in every order.
FormatLists ==
  UNION {[1..n -> Denoms] : n \in 0..MaxFormats} \cup Orders(literal)

\* The amounts a caller of the module passes: null, NaN and the integers.
Values == {Null, NaN} \cup {Num(k) : k \in (0 - MaxAmount)..MaxAmount}

\* The path segments of a request: absent, or a non-empty string.
Params ==
  {Undefined} \cup {Str(cs) : cs \in UNION {[1..n -> Chars] : n \in 1..MaxParamLen}}

NoCall == [made |-> FALSE, value |-> Null, outcome |-> Return(<<>>)]

NoRequest == [state |-> "none", value |-> Undefined]

\* A request in flight that has not arrived.
Idle == [state |-> "none", value |-> Undefined, formats |-> <<>>, response |-> NoResponse]

Init ==
  /\ program \in {"library", "server"}
  /\ given \in (IF program = "library" THEN FormatLists ELSE {literal})
  /\ formats = given
  /\ constructed = FALSE
  /\ call = NoCall
  /\ kept = NoCall
  /\ request = NoRequest
  /\ response = NoResponse
  /\ requests = [r \in 1..MaxRequests |-> Idle]

\* machine({ formats }): the caller's array is sorted and reversed in place
\* and the handle keeps it.
Construct ==
  /\ program = "library"
  /\ formats' = machine(formats)
  /\ constructed' = TRUE
  /\ UNCHANGED <<program, given, call, kept, request, response, requests>>

\* A withdraw that reverses the handle's array in place on every call.
Called_reversing(value) ==
  /\ program = "library"
  /\ constructed
  /\ ~call.made
  /\ call' = [made |-> TRUE, value |-> value, outcome |-> validate(formats, value)]
  /\ formats' = reverse(formats)
  /\ UNCHANGED <<program, given, constructed, kept, request, response, requests>>

\* handle.withdraw(value), a synchronous call: the caller holds no outcome of
\* an earlier call while it runs.
Called(value) ==
  /\ program = "library"
  /\ constructed
  /\ ~call.made
  /\ call' = [made |-> TRUE, value |-> value, outcome |-> validate(formats, value)]
  /\ UNCHANGED <<program, given, formats, constructed, kept, request, response, requests>>

\* A withdraw call of the caller, with any amount.
Withdraw == \E value \in Values : Called(value)

\* The caller is done with the outcome it holds.
Discard ==
  /\ program = "library"
  /\ call.made
  /\ call' = NoCall
  /\ UNCHANGED <<program, given, formats, constructed, kept, request, response, requests>>

\* A request arrives: GET /:value?
Request ==
  /\ program = "server"
  /\ request.state = "none"
  /\ \E value \in Params : request' = [state |-> "pending", value |-> value]
  /\ UNCHANGED <<program, given, formats, constructed, call, kept, response, requests>>

\* The handler runs on the pending request, from its first line to its last.
App ==
  /\ program = "server"
  /\ request.state = "pending"
  /\ formats' = machine(literal)
  /\ constructed' = TRUE
  /\ call' = [made |-> TRUE, value |-> OrNull(request.value),
              outcome |-> validate(machine(literal), OrNull(request.value))]
  /\ response' = app(request.value, response)
  /\ request' = [request EXCEPT !.state = "done"]
  /\ UNCHANGED <<program, given, kept, requests>>

\* The response was delivered and the request is over.
Finish ==
  /\ program = "server"
  /\ request.state = "done"
  /\ request' = NoRequest
  /\ response' = NoResponse
  /\ call' = NoCall
  /\ UNCHANGED <<program, given, formats, constructed, kept, requests>>

Next == Construct \/ Withdraw \/ Discard \/ Request \/ App \/ Finish

Spec == Init /\ [][Next]_vars

(* ------------------ a caller that compares two calls ------------------ *)

\* The amounts of the test suite, the denominations and the sums of two.
IdemAmounts ==
  {30, 80, 125, 0 - 130, 0} \cup Denoms \cup {a + b : a, b \in Denoms}

IdemValues == {Null, NaN} \cup {Num(k) : k \in IdemAmounts}

\* A withdraw call of the comparing caller.
WithdrawIdem == \E value \in IdemValues : Called(value)

\* The caller keeps the outcome it holds, to compare later outcomes with it.
Keep ==
  /\ program = "library"
  /\ call.made
  /\ kept' = call
  /\ call' = NoCall
  /\ UNCHANGED <<program, given, formats, constructed, request, response, requests>>

InitIdem == Init /\ program = "library"

NextIdem == Construct \/ WithdrawIdem \/ Discard \/ Keep

SpecIdem == InitIdem /\ [][NextIdem]_vars

(* ------------------- a server with several requests ------------------ *)

\* The path segments of the requests in flight: absent, the amounts of the
\* README's examples, a negative one and one that is no number.
ConcParams ==
  {Undefined, Str(<<"3", "0">>), Str(<<"8", "0">>), Str(<<"1", "2", "5">>),
   Str(<<"-", "1", "3">>), Str(<<"a">>)}

\* Request r arrives while others may be pending or answered.
Arrive(r) ==
  /\ program = "server"
  /\ requests[r].state = "none"
  /\ \E value \in ConcParams :
       requests' = [requests EXCEPT ![r] = [Idle EXCEPT !.state = "pending",
                                                        !.value = value]]
  /\ UNCHANGED <<program, given, formats, constructed, call, kept, request, response>>

\* A handler whose note list is one array of the module, shared by all calls.
Handle_sharedOutput(r) ==
  /\ program = "server"
  /\ requests[r].state = "pending"
  /\ LET outcome == validate(machine(literal), OrNull(requests[r].value))
         shared == call.outcome.value \o outcome.value
     IN  /\ call' = [made |-> TRUE, value |-> OrNull(requests[r].value),
                     outcome |-> Return(shared)]
         /\ requests' =
              [requests EXCEPT ![r].state = "done",
                               ![r].formats = machine(literal),
                               ![r].response =
                                 IF outcome.kind = "return"
                                 THEN json(requests[r].response, shared)
                                 ELSE send(status(requests[r].response, 500),
                                           outcome.message)]
  /\ UNCHANGED <<program, given, formats, constructed, kept, request, response>>

\* The handler runs on pending request r, from its first line to its last (a
\* handler is synchronous: no other handler runs meanwhile). Its array is a
\* new one, its response the request's own.
Handle(r) ==
  /\ program = "server"
  /\ requests[r].state = "pending"
  /\ requests' = [requests EXCEPT ![r].state = "done",
                                  ![r].formats = machine(literal),
                                  ![r].response =
                                    app(requests[r].value, requests[r].response)]
  /\ UNCHANGED <<program, given, formats, constructed, call, kept, request, response>>

\* The response of request r was delivered and the request is over.
Deliver(r) ==
  /\ program = "server"
  /\ requests[r].state = "done"
  /\ requests' = [requests EXCEPT ![r] = Idle]
  /\ UNCHANGED <<program, given, formats, constructed, call, kept, request, response>>

InitConc == Init /\ program = "server"

NextConc == \E r \in 1..MaxRequests : Arrive(r) \/ Handle(r) \/ Deliver(r)

SpecConc == InitConc /\ [][NextConc]_vars

(* --------------- a caller with denominations greedy is not best for --- *)

\* The denominations of the code review's example.
GreedyDenoms == {25, 20, 5}

\* The lists a caller makes of them.
GreedyLists == UNION {[1..n -> GreedyDenoms] : n \in 0..MaxFormats}

InitGreedy ==
  /\ program = "library"
  /\ given \in GreedyLists
  /\ formats = given
  /\ constructed = FALSE
  /\ call = NoCall
  /\ kept = NoCall
  /\ request = NoRequest
  /\ response = NoResponse
  /\ requests = [r \in 1..MaxRequests |-> Idle]

NextGreedy == Construct \/ Withdraw \/ Discard

SpecGreedy == InitGreedy /\ [][NextGreedy]_vars

(* ------------------------- what the claims speak of ------------------- *)

\* The number a valid amount stands for (null, and a request's "80", too).
AmountOf(value) == ToNumber(value).n

\* The caller holds the outcome of a call whose amount is a non-negative number.
ValidCall == call.made /\ ToNumber(call.value).type = "number" /\ AmountOf(call.value) >= 0

Returned == call.made /\ call.outcome.kind = "return"

Threw(type) == call.made /\ call.outcome.kind = "throw" /\ call.outcome.message = type

\* The handle was made on the denominations 100, 50, 20, 10, in any order.
ConfiguredLiteral ==
  constructed /\ Len(given) = Len(literal) /\ Range(given) = Range(literal)

\* A note reads as digits, a point and two digits.
WellFormedNote(note) ==
  /\ Len(note) >= 4
  /\ note[Len(note) - 2] = "."
  /\ AllDigits(SubSeq(note, 1, Len(note) - 3))
  /\ AllDigits(SubSeq(note, Len(note) - 1, Len(note)))

\* The value of a well-formed note, in hundredths.
NoteCents(note) ==
  100 * DigitsValue(SubSeq(note, 1, Len(note) - 3))
    + DigitsValue(SubSeq(note, Len(note) - 1, Len(note)))

RECURSIVE SumCentsTo(_, _)
\* The value of the first count notes of a list, in hundredths.
SumCentsTo(output, count) ==
  IF count = 0 THEN 0 ELSE SumCentsTo(output, count - 1) + NoteCents(output[count])

\* The value of a note list, in hundredths.
SumCents(output) == SumCentsTo(output, Len(output))

RECURSIVE Closure(_, _)
\* The amounts up to MaxAmount that are sums of denominations of D, S being
\* the sums found so far.
Closure(S, D) ==
  LET more == S \cup ({s + d : s \in S, d \in D} \cap (0..MaxAmount))
  IN  IF more = S THEN S ELSE Closure(more, D)

\* For each set of denominations, the amounts up to MaxAmount that are exact
\* non-negative integer combinations of them.
Combinations == [D \in SUBSET Denoms |-> Closure({0}, D)]

\* The smallest denomination of the list divides every other one.
SmallestDividesAll(list) ==
  \E m \in Range(list) : \A d \in Range(list) : d % m = 0

RECURSIVE FewestFrom(_, _)
\* The fewest notes of the literal's denominations that sum to amount, level
\* being the sums of exactly count notes.
FewestFrom(level, amount) ==
  IF amount \in level[2] THEN level[1]
  ELSE FewestFrom(<<level[1] + 1,
                    {s + d : s \in level[2], d \in Range(literal)} \cap (0..MaxAmount)>>,
                  amount)

\* For each amount up to MaxAmount that the literal's denominations sum to, the
\* fewest notes that do.
Fewest == [a \in Combinations[Range(literal)] |-> FewestFrom(<<0, {0}>>, a)]

(* -------------------------------- the claims -------------------------- *)

\* C1 as stated: whenever the amount of a valid call is an exact combination
\* of the configured denominations, the call returns, and the notes it returns
\* sum to the amount.
C1_EveryCombinationSucceeds ==
  (ValidCall /\ AmountOf(call.value) \in Combinations[Range(formats)])
    => (Returned /\ SumCents(call.outcome.value) = 100 * AmountOf(call.value))

\* C1 amended: the notes of every call that returns sum to exactly the amount
\* asked for, and a valid call whose amount is an exact combination of the
\* configured denominations returns whenever the smallest configured
\* denomination divides all the others.
C1_SumsToAmount ==
  /\ (ValidCall /\ Returned)
       => SumCents(call.outcome.value) = 100 * AmountOf(call.value)
  /\ (ValidCall /\ AmountOf(call.value) \in Combinations[Range(formats)]
        /\ SmallestDividesAll(formats))
       => Returned

\* A call on <<100, 50, 20, 10>> returned three notes for 80.
C1_Witness ==
  /\ program = "library" /\ given = <<10, 20, 50, 100>>
  /\ Returned /\ call.value = Num(80) /\ Len(call.outcome.value) = 3

\* C2: on the denominations 100, 50, 20, 10 no list of notes that sums to the
\* amount of a returned call is shorter than the list the call returned.
C2_FewestNotes ==
  (ConfiguredLiteral /\ ValidCall /\ Returned /\ AmountOf(call.value) <= MaxAmount)
    => /\ AmountOf(call.value) \in DOMAIN Fewest
       /\ Len(call.outcome.value) = Fewest[AmountOf(call.value)]

\* 110 came back as two notes, where five notes of 20 and one of 10 also sum to it.
C2_Witness ==
  /\ ConfiguredLiteral /\ Returned /\ AmountOf(call.value) = 110
  /\ Len(call.outcome.value) = 2

\* C3: withdraw(null) returns the empty list, whatever the denominations.
C3_NullIsEmpty ==
  (call.made /\ call.value = Null) => call.outcome = Return(<<>>)

\* withdraw(null) returned on a handle with several denominations.
C3_Witness ==
  /\ program = "library" /\ Len(formats) >= MaxFormats
  /\ call.made /\ call.value = Null /\ Returned

RECURSIVE ModPass(_, _)
\* What remains of an amount after one pass over the denominations in order,
\* each taking all it can.
ModPass(list, amount) ==
  IF Len(list) = 0 THEN amount ELSE ModPass(Tail(list), amount % Head(list))

\* The outcome of an InvalidArgumentException: an error and no list.
InvalidArgument ==
  [kind |-> "throw", value |-> <<>>, message |-> "InvalidArgumentException"]

\* C4: a call whose argument is NaN or negative throws InvalidArgumentException
\* and nothing of the decomposition shows; a non-negative number reaches the
\* wrapped withdraw as it is.
C4_InvalidRejected ==
  call.made =>
    IF ToNumber(call.value).type = "nan" \/ AmountOf(call.value) < 0
    THEN call.outcome = InvalidArgument
    ELSE /\ call.outcome # InvalidArgument
         /\ call.outcome = withdraw(formats, call.value)

\* withdraw(-130) threw InvalidArgumentException on the test suite's handle.
C4_Witness ==
  /\ program = "library" /\ ConfiguredLiteral
  /\ call.value = Num(0 - 130) /\ Threw("InvalidArgumentException")

\* C5: a valid call throws NoteUnavailableException exactly when something
\* remains after the pass over the denominations, and otherwise returns notes
\* that make up the amount; 0 returns the empty list; on 100, 50, 20, 10 every
\* amount that is no multiple of 10 throws NoteUnavailableException.
C5_FailsIffRemainder ==
  ValidCall =>
    /\ Threw("NoteUnavailableException") <=> ModPass(formats, AmountOf(call.value)) # 0
    /\ ~Threw("NoteUnavailableException")
         => (Returned /\ SumCents(call.outcome.value) = 100 * AmountOf(call.value))
    /\ AmountOf(call.value) = 0 => call.outcome = Return(<<>>)
    /\ (ConfiguredLiteral /\ AmountOf(call.value) % 10 # 0)
         => Threw("NoteUnavailableException")

\* withdraw(125) threw NoteUnavailableException on the test suite's handle.
C5_Witness ==
  /\ program = "library" /\ ConfiguredLiteral
  /\ call.value = Num(125) /\ Threw("NoteUnavailableException")

\* C6: a returned list has one entry for each note, every entry a configured
\* denomination written with two decimals, from the largest denomination to
\* the smallest; 30 gives 20.00, 10.00 and 80 gives 50.00, 20.00, 10.00.
C6_NotesInOrder ==
  Returned =>
    LET output == call.outcome.value
    IN  /\ \A i \in 1..Len(output) :
             /\ WellFormedNote(output[i])
             /\ \E d \in Range(formats) : NoteCents(output[i]) = 100 * d
        /\ \A i \in 1..(Len(output) - 1) :
             NoteCents(output[i]) >= NoteCents(output[i + 1])
        /\ SumCents(output) = 100 * AmountOf(call.value)
        /\ (ConfiguredLiteral /\ call.value = Num(30))
             => output = << <<"2", "0", ".", "0", "0">>, <<"1", "0", ".", "0", "0">> >>
        /\ (ConfiguredLiteral /\ call.value = Num(80))
             => output = << <<"5", "0", ".", "0", "0">>, <<"2", "0", ".", "0", "0">>,
                            <<"1", "0", ".", "0", "0">> >>

\* A returned list holds several notes of one denomination and a smaller one.
C6_Witness ==
  /\ Returned /\ Len(call.outcome.value) >= 3
  /\ call.outcome.value[1] = call.outcome.value[2]
  /\ call.outcome.value[Len(call.outcome.value)] # call.outcome.value[1]

Distinct(list) == Cardinality(Range(list)) = Len(list)

\* C7: a handle made on distinct denominations tries them from the largest to
\* the smallest, so a call's outcome is that of the same call on a handle made
\* on the same denominations written in any other order.
C7_SortedDescending ==
  (constructed /\ Distinct(given)) =>
    /\ Len(formats) = Len(given) /\ Range(formats) = Range(given)
    /\ \A i, j \in 1..Len(formats) : i < j => formats[i] > formats[j]
    /\ (program = "library" /\ call.made)
         => \A p \in Orders(given) : validate(machine(p), call.value) = call.outcome

\* A handle made on an unsorted list of four denominations returned for 80.
C7_Witness ==
  /\ program = "library" /\ constructed /\ given = <<10, 100, 20, 50>>
  /\ call.value = Num(80) /\ Returned

\* C8: a call has the outcome of the earlier call of the same amount on the
\* handle, whatever was called in between.
C8_SameOutcome ==
  (call.made /\ kept.made /\ call.value = kept.value) => call.outcome = kept.outcome

\* The caller kept the outcome of withdraw(80) and holds that of a second one.
C8_Witness ==
  /\ kept.made /\ call.made /\ Len(formats) > 1
  /\ call.value = Num(80) /\ kept.value = Num(80) /\ Returned

\* C9 as stated: no step of the decomposer, the making of a handle included,
\* changes the array the caller supplied, which is the array the handle reads.
C9_NoSideEffect == [][formats' = formats]_vars

\* The call fails: its argument is invalid or something remains after the pass.
Fails ==
  \/ ToNumber(call.value).type = "nan"
  \/ AmountOf(call.value) < 0
  \/ ModPass(formats, AmountOf(call.value)) # 0

\* C10: a call that fails throws one of the two errors and hands its caller no
\* list, and a handled request got exactly one response: the JSON list of a
\* call that returned, or the status 500 and the message of a call that threw.
C10_Atomic ==
  /\ (call.made /\ Fails)
       => /\ call.outcome.kind = "throw" /\ call.outcome.value = <<>>
          /\ call.outcome.message
               \in {"InvalidArgumentException", "NoteUnavailableException"}
  /\ request.state # "done" => response = NoResponse
  /\ request.state = "done"
       => /\ response.sent = 1
          /\ \/ /\ Returned /\ ~Fails
                /\ response = json(NoResponse, call.outcome.value)
             \/ /\ call.outcome.kind = "throw" /\ Fails
                /\ response = send(status(NoResponse, 500), call.outcome.message)

\* The request for 125 was answered with status 500 and the error's message.
C10_Witness ==
  /\ request.state = "done" /\ request.value = Str(<<"1", "2", "5">>)
  /\ response.status = 500 /\ response.text = "NoteUnavailableException"
  /\ response.json = <<>>

\* The smallest denomination of a non-empty list.
Smallest(list) == CHOOSE m \in Range(list) : \A d \in Range(list) : m <= d

\* C12: a returned list is never longer than the list of a dispenser that
\* hands out the smallest configured denomination alone: its length is at
\* most the amount divided by that denomination.
C12_AtMostNaive ==
  (Returned /\ Len(formats) > 0)
    => Len(call.outcome.value) * Smallest(formats) <= AmountOf(call.value)

\* 110 came back as two notes where eleven notes of 10 make it up.
C12_Witness ==
  /\ program = "library" /\ ConfiguredLiteral
  /\ Returned /\ call.value = Num(110) /\ Len(call.outcome.value) = 2
  /\ 110 \div Smallest(formats) = 11

\* C13: the response of a handled request. A call that threw, whichever
\* error, gives status 500 and the error's message as the body; a call that
\* returned gives the JSON array of its notes; an absent path value, like an
\* empty one, reaches withdraw as null and gives the empty array.
C13_ResponseOfOutcome ==
  /\ OrNull(Str(<<>>)) = Null
  /\ request.state = "done" =>
       LET number == ToNumber(OrNull(request.value))
       IN  /\ request.value = Undefined
                => (call.value = Null /\ response = json(NoResponse, <<>>))
           /\ number.type = "nan" \/ number.n < 0
                => /\ response.status = 500 /\ response.type = "text"
                   /\ response.text = "InvalidArgumentException"
           /\ (number.type = "number" /\ number.n >= 0 /\ number.n % 10 # 0)
                => /\ response.status = 500 /\ response.type = "text"
                   /\ response.text = "NoteUnavailableException"
           /\ (number.type = "number" /\ number.n >= 0 /\ number.n % 10 = 0)
                => /\ response.status = 200 /\ response.type = "json"
                   /\ SumCents(response.json) = 100 * number.n
                   /\ \A i \in 1..Len(response.json) : WellFormedNote(response.json[i])

\* The request for -13 was answered with status 500 and InvalidArgumentException.
C13_Witness ==
  /\ request.state = "done" /\ request.value = Str(<<"-", "1", "3">>)
  /\ response.status = 500 /\ response.text = "InvalidArgumentException"

RECURSIVE GreedyNotes(_, _)
\* The notes of the pass over the denominations in order, each denomination
\* giving as many notes as fit in what the ones before it left.
GreedyNotes(list, amount) ==
  IF Len(list) = 0 THEN <<>>
  ELSE [i \in 1..(amount \div Head(list)) |-> toFixed2(Head(list))]
         \o GreedyNotes(Tail(list), amount % Head(list))

\* What the pass holds after the first count denominations of the handle.
PassAfter(count) == reduce(SubSeq(formats, 1, count), initial(call.value))

\* C14: a valid call is one pass over the denominations from the largest: each
\* takes floor(remaining / d) notes and leaves less than d; the call throws
\* NoteUnavailableException when the pass leaves something, though other notes
\* would make the amount up (25, 20 and 40), and otherwise returns the notes of
\* the pass, though fewer would do (25, 20, 5 and 40: 25, 5, 5, 5).
C14_SinglePassGreedy ==
  ValidCall =>
    /\ \A k \in 1..Len(formats) :
         LET before == ToNumber(PassAfter(k - 1).remaining).n
             count == before \div formats[k]
         IN  /\ Len(PassAfter(k).output) = Len(PassAfter(k - 1).output) + count
             /\ PassAfter(k).remaining = Num(before - count * formats[k])
             /\ 0 <= PassAfter(k).remaining.n
             /\ PassAfter(k).remaining.n < formats[k]
    /\ \A i, j \in 1..Len(formats) : i < j => formats[i] >= formats[j]
    /\ call.outcome =
         IF ModPass(formats, AmountOf(call.value)) # 0
         THEN [kind |-> "throw", value |-> <<>>, message |-> "NoteUnavailableException"]
         ELSE Return(GreedyNotes(formats, AmountOf(call.value)))
    /\ (Range(given) = {25, 20} /\ call.value = Num(40))
         => Threw("NoteUnavailableException")
    /\ (Range(given) = {25, 20, 5} /\ call.value = Num(40))
         => call.outcome.value =
              << <<"2", "5", ".", "0", "0">>, <<"5", ".", "0", "0">>,
                 <<"5", ".", "0", "0">>, <<"5", ".", "0", "0">> >>

\* 40 came back as four notes on 25, 20, 5, where two notes of 20 make it up.
C14_Witness ==
  /\ given = <<5, 20, 25>> /\ Returned /\ call.value = Num(40)
  /\ Len(call.outcome.value) = 4 /\ 20 \in Range(formats)

\* The response a request with this path segment gets when it is the only one.
Alone(value) == app(value, NoResponse)

\* C11: whatever the order in which requests arrive, are handled and are
\* delivered, an answered request has the response it would have as the only
\* request, and a request not yet handled has none: no handler writes what
\* another request reads.
C11_AsIfAlone ==
  \A r \in 1..MaxRequests :
    /\ requests[r].state = "done"
         => /\ requests[r].response = Alone(requests[r].value)
            /\ requests[r].formats = literal
    /\ requests[r].state # "done" => requests[r].response = NoResponse

\* Two requests are answered at once, one with an error and one with notes.
C11_Witness ==
  /\ requests[1].state = "done" /\ requests[1].value = Str(<<"1", "2", "5">>)
  /\ requests[1].response.status = 500
  /\ requests[2].state = "done" /\ requests[2].value = Str(<<"8", "0">>)
  /\ Len(requests[2].response.json) = 3

====
